---- MODULE Spec2Model ----
(***************************************************************************)
(* Model of the Proxmox NAS web UI (src/web-ui/app.py): the site           *)
(* configuration store, the external tool invocations (bootstrap media,    *)
(* deployment) and the status collection.                                  *)
(*                                                                         *)
(* A text is a sequence of atoms.  A literal fragment of the source is one *)
(* atom ("--site-config"); text that comes from a form or from a tool's    *)
(* output is one atom per character.                                       *)
(***************************************************************************)
EXTENDS Integers, Sequences, FiniteSets, TLC

VARIABLES
    files,      \* CONFIG_DIR: file name -> document (a sequence of lines) or NoFile
    dirExists,  \* whether CONFIG_DIR exists
    lastSaved,  \* history: site_name -> the site_config most recently dumped under it
    req,        \* client -> the request it has in flight and its response
    procs       \* client -> the external process subprocess.run started for it

vars == <<files, dirExists, lastSaved, req, procs>>

----------------------------------------------------------------------------
(* Bounds *)

\* Largest number of disks a form submits for one disk list.
MaxDisks == 2

----------------------------------------------------------------------------
(* Text *)

Digits == {"0", "1", "2", "3", "4", "5", "6", "7", "8", "9"}
Whitespace == {" ", "\n", "\t"}

DigitVal(c) ==
    CASE c = "0" -> 0 [] c = "1" -> 1 [] c = "2" -> 2 [] c = "3" -> 3
      [] c = "4" -> 4 [] c = "5" -> 5 [] c = "6" -> 6 [] c = "7" -> 7
      [] c = "8" -> 8 [] c = "9" -> 9

DigitChar(d) ==
    CASE d = 0 -> "0" [] d = 1 -> "1" [] d = 2 -> "2" [] d = 3 -> "3"
      [] d = 4 -> "4" [] d = 5 -> "5" [] d = 6 -> "6" [] d = 7 -> "7"
      [] d = 8 -> "8" [] d = 9 -> "9"

Front(s) == SubSeq(s, 1, Len(s) - 1)
Last(s) == s[Len(s)]

RECURSIVE LStrip(_)
LStrip(s) == IF s # <<>> /\ Head(s) \in Whitespace THEN LStrip(Tail(s)) ELSE s

RECURSIVE RStrip(_)
RStrip(s) == IF s # <<>> /\ Last(s) \in Whitespace THEN RStrip(Front(s)) ELSE s

\* str.strip()
Strip(s) == RStrip(LStrip(s))

\* The digits of a signed decimal numeral, sign removed.
Unsigned(s) == IF s # <<>> /\ Head(s) \in {"-", "+"} THEN Tail(s) ELSE s

IsNumeral(s) == Unsigned(s) # <<>> /\ \A i \in 1..Len(Unsigned(s)) : Unsigned(s)[i] \in Digits

RECURSIVE DigitsValue(_)
DigitsValue(s) == IF s = <<>> THEN 0 ELSE 10 * DigitsValue(Front(s)) + DigitVal(Last(s))

NumeralValue(s) == IF Head(s) = "-" THEN 0 - DigitsValue(Unsigned(s)) ELSE DigitsValue(Unsigned(s))

RECURSIVE NatText(_)
NatText(n) == IF n < 10 THEN <<DigitChar(n)>> ELSE NatText(n \div 10) \o <<DigitChar(n % 10)>>

\* str(n) of an int
IntText(n) == IF n < 0 THEN <<"-">> \o NatText(0 - n) ELSE NatText(n)

\* int(text): surrounding whitespace is ignored; anything but a signed decimal
\* numeral raises ValueError.
PyIntOk(s) == IsNumeral(Strip(s))
PyInt(s) == NumeralValue(Strip(s))

RECURSIVE SplitAt(_, _, _)
SplitAt(s, sep, cur) ==
    IF s = <<>> THEN <<cur>>
    ELSE IF Head(s) \in sep THEN <<cur>> \o SplitAt(Tail(s), sep, <<>>)
    ELSE SplitAt(Tail(s), sep, Append(cur, Head(s)))

\* str.split('\n')
SplitLines(s) == SplitAt(s, {"\n"}, <<>>)

Range(s) == {s[i] : i \in 1..Len(s)}

----------------------------------------------------------------------------
(* Python values *)

PyStr(s) == [t |-> "str", s |-> s, n |-> 0]
PyNum(n) == [t |-> "int", s |-> <<>>, n |-> n]
PyNone == [t |-> "none", s |-> <<>>, n |-> 0]

----------------------------------------------------------------------------
(* YAML documents: yaml.dump(site_config, f, default_flow_style=False) and
   yaml.safe_load(f).  A document is a sequence of lines
   [key, kind, style, text]; kind is "scalar" (key: value), "seq" (key: with a
   block sequence following), "empty" (key: []) or "item" (- value). *)

\* The type the YAML resolver gives a plain scalar.
YamlResolve(text) ==
    IF text = <<>> \/ text = <<"~">> THEN "null"
    ELSE IF IsNumeral(text) THEN "int"
    ELSE "str"

\* Every str written plain, none quoted.
DumpStrPlain(key, kind, s) == [key |-> key, kind |-> kind, style |-> "plain", text |-> s]

\* A str is written plain only when reading it back plain gives the same str;
\* otherwise it is quoted.
DumpStr(key, kind, s) ==
    [key |-> key, kind |-> kind,
     style |-> IF YamlResolve(s) # "str" \/ Strip(s) # s THEN "quoted" ELSE "plain",
     text |-> s]

DumpInt(key, n) == [key |-> key, kind |-> "scalar", style |-> "plain", text |-> IntText(n)]

DumpList(key, list) ==
    IF list = <<>>
    THEN <<[key |-> key, kind |-> "empty", style |-> "plain", text |-> <<>>]>>
    ELSE <<[key |-> key, kind |-> "seq", style |-> "plain", text |-> <<>>]>>
         \o [i \in 1..Len(list) |-> DumpStr(key, "item", list[i].s)]

\* Mapping keys are written sorted, nested mappings in block style.
Dump(cfg) ==
    << DumpStr("network.ip_range", "scalar", cfg.network.ip_range.s),
       DumpInt("network.vlan_id", cfg.network.vlan_id.n),
       DumpStr("proxmox.api_host", "scalar", cfg.proxmox.api_host.s),
       DumpStr("proxmox.api_user", "scalar", cfg.proxmox.api_user.s),
       DumpStr("site_name", "scalar", cfg.site_name.s) >>
    \o DumpList("storage.data_disks", cfg.storage.data_disks)
    \o << DumpStr("storage.raid_level", "scalar", cfg.storage.raid_level.s) >>
    \o DumpList("storage.system_disks", cfg.storage.system_disks)

LoadScalar(line) ==
    IF line.style = "quoted" THEN PyStr(line.text)
    ELSE CASE YamlResolve(Strip(line.text)) = "int" -> PyNum(NumeralValue(Strip(line.text)))
           [] YamlResolve(Strip(line.text)) = "null" -> PyNone
           [] OTHER -> PyStr(Strip(line.text))

\* The last line of the document with this key and one of these kinds (0: none):
\* a key that occurs twice in a mapping keeps its last value.
LastIdx(doc, key, kinds) ==
    LET hits == {i \in 1..Len(doc) : doc[i].key = key /\ doc[i].kind \in kinds}
    IN IF hits = {} THEN 0 ELSE CHOOSE i \in hits : \A j \in hits : j <= i

LoadScalarKey(doc, key) ==
    LET i == LastIdx(doc, key, {"scalar"})
    IN IF i = 0 THEN PyNone ELSE LoadScalar(doc[i])

RECURSIVE ItemsFrom(_, _, _)
ItemsFrom(doc, key, i) ==
    IF i > Len(doc) THEN <<>>
    ELSE IF doc[i].key = key /\ doc[i].kind = "item"
         THEN <<LoadScalar(doc[i])>> \o ItemsFrom(doc, key, i + 1)
         ELSE ItemsFrom(doc, key, i + 1)

LoadListKey(doc, key) == ItemsFrom(doc, key, LastIdx(doc, key, {"seq", "empty"}) + 1)

\* A block item under a key whose value was written [] (or was never opened)
\* is a scanner error.
Malformed(doc) ==
    \E i \in 1..Len(doc) :
        /\ doc[i].kind = "item"
        /\ LET h == LastIdx(SubSeq(doc, 1, i), doc[i].key, {"seq", "empty"})
           IN h = 0 \/ doc[h].kind = "empty"

LoadDict(doc) ==
    [site_name |-> LoadScalarKey(doc, "site_name"),
     network |-> [vlan_id |-> LoadScalarKey(doc, "network.vlan_id"),
                  ip_range |-> LoadScalarKey(doc, "network.ip_range")],
     storage |-> [system_disks |-> LoadListKey(doc, "storage.system_disks"),
                  data_disks |-> LoadListKey(doc, "storage.data_disks"),
                  raid_level |-> LoadScalarKey(doc, "storage.raid_level")],
     proxmox |-> [api_host |-> LoadScalarKey(doc, "proxmox.api_host"),
                  api_user |-> LoadScalarKey(doc, "proxmox.api_user")]]

\* yaml.safe_load: None for an empty document, YAMLError for a malformed one.
LoadKind(doc) ==
    IF doc = <<>> THEN "none" ELSE IF Malformed(doc) THEN "error" ELSE "dict"

----------------------------------------------------------------------------
(* The site forms a client submits *)

Missing == <<"<missing>">>
Empty == <<>>
Lab1 == <<"l", "a", "b", "1">>
Name50 == <<"5", "0">>
VlanPadded == <<" ", "7">>
VlanNegative == <<"-", "1">>
VlanWord == <<"a", "b", "c">>
AllDisks == << <<"/dev/sda">>, <<"/dev/sdb">>, <<"/dev/sdc">>, <<"/dev/sdd">> >>

DiskLists == {SubSeq(AllDisks, 1, k) : k \in 0..MaxDisks}

FormsOver(names, vlans, sysDisks, dataDisks) ==
    [site_name : names, vlan_id : vlans, ip_range : {<<"10.0.0.0/24">>},
     system_disks : sysDisks, data_disks : dataDisks, raid_level : {<<"raidz1">>},
     api_host : {<<"pve.local">>}, api_user : {<<"root@pam">>}]

FormKeys == {"site_name", "vlan_id", "ip_range", "raid_level", "api_host", "api_user"}

\* The site_config dict new_site builds from request.form.
SiteConfigOf(form) ==
    [site_name |-> PyStr(form.site_name),
     network |-> [vlan_id |-> PyNum(PyInt(form.vlan_id)),
                  ip_range |-> PyStr(form.ip_range)],
     storage |-> [system_disks |-> [i \in 1..Len(form.system_disks) |-> PyStr(form.system_disks[i])],
                  data_disks |-> [i \in 1..Len(form.data_disks) |-> PyStr(form.data_disks[i])],
                  raid_level |-> PyStr(form.raid_level)],
     proxmox |-> [api_host |-> PyStr(form.api_host),
                  api_user |-> PyStr(form.api_user)]]

\* How building site_config ends: request.form[k] of a missing key is a
\* BadRequestKeyError (400), int() of a non-numeral a ValueError (500).  The dict
\* display is evaluated in order: site_name, vlan_id, then the rest.
BuildOutcome(form) ==
    IF form.site_name = Missing \/ form.vlan_id = Missing THEN "400"
    ELSE IF ~PyIntOk(form.vlan_id) THEN "500"
    ELSE IF \E k \in FormKeys : form[k] = Missing THEN "400"
    ELSE "ok"

YmlExt == <<".yml">>

\* The name of the file under CONFIG_DIR: f"{site_name}.yml"
FileNameOf(site_name) == site_name \o YmlExt

----------------------------------------------------------------------------
(* Clients and the files of CONFIG_DIR *)

Clients == {"c1", "c2", "c3"}

Idle == [op |-> "none", pc |-> "idle"]

\* A client may send its next request once the last one was answered.
Ready(c) == req[c].pc \in {"idle", "done"}

NoFiles == [n \in {} |-> <<>>]

\* open(config_file, 'w'): the file is created, or truncated to nothing.
OpenTruncate(fs, name) == [n \in DOMAIN fs \cup {name} |-> IF n = name THEN <<>> ELSE fs[n]]

\* Closing the file writes the buffered document at the descriptor's position,
\* the start of the file; what the file holds beyond the document stays.
WriteAtStart(fs, name, doc) ==
    [fs EXCEPT ![name] = doc \o SubSeq(fs[name], Len(doc) + 1, Len(fs[name]))]

\* The history of saves: the config last dumped under each site_name, and whether
\* that save replaced a different config of the same name.
Record(saved, name, cfg) ==
    [n \in DOMAIN saved \cup {name} |->
        IF n = name
        THEN [config |-> cfg, replaced |-> name \in DOMAIN saved /\ saved[name].config # cfg]
        ELSE saved[n]]

Perms(S) == {p \in [1..Cardinality(S) -> S] : \A i, j \in 1..Cardinality(S) : p[i] = p[j] => i = j}

\* One pass of the loop of sites(): the parsed config with its file name added.
\* config['filename'] = ... raises TypeError when safe_load returned None.
ReadOutcome(doc) == IF LoadKind(doc) = "dict" THEN "ok" ELSE "raised"
SiteEntry(doc, name) == [config |-> LoadDict(doc), filename |-> name]

RECURSIVE ReadAll(_, _)
ReadAll(fs, order) ==
    IF order = <<>> THEN [status |-> "ok", sites |-> <<>>]
    ELSE IF ReadOutcome(fs[Head(order)]) = "raised" THEN [status |-> "raised", sites |-> <<>>]
    ELSE LET rest == ReadAll(fs, Tail(order))
         IN IF rest.status = "raised" THEN rest
            ELSE [status |-> "ok", sites |-> <<SiteEntry(fs[Head(order)], Head(order))>> \o rest.sites]

----------------------------------------------------------------------------
(* The store, one request at a time: each handler runs from start to end. *)

StoreNames == {Lab1, Name50}
StoreForms ==
    FormsOver(StoreNames, {VlanPadded, VlanNegative, VlanWord, Missing}, {SubSeq(AllDisks, 4, 4)}, DiskLists)
      \cup FormsOver({Empty}, {VlanPadded}, {SubSeq(AllDisks, 4, 4)}, {<<>>})

\* POST /sites/new
new_site(c, form) ==
    /\ Ready(c)
    /\ IF BuildOutcome(form) # "ok"
       THEN /\ req' = [req EXCEPT ![c] = [op |-> "new_site", pc |-> "done",
                                           status |-> BuildOutcome(form), flash |-> <<>>]]
            /\ UNCHANGED <<files, dirExists, lastSaved>>
       ELSE /\ dirExists' = TRUE
            /\ files' = WriteAtStart(OpenTruncate(files, FileNameOf(form.site_name)),
                                     FileNameOf(form.site_name), Dump(SiteConfigOf(form)))
            /\ lastSaved' = Record(lastSaved, form.site_name, SiteConfigOf(form))
            /\ req' = [req EXCEPT ![c] = [op |-> "new_site", pc |-> "done",
                                           status |-> "302",
                                           flash |-> <<"Site configuration created successfully!">>]]
    /\ UNCHANGED procs

\* GET /sites; glob yields the files in an order the file system chooses.
sites(c) ==
    /\ Ready(c)
    /\ \E order \in Perms(IF dirExists THEN DOMAIN files ELSE {}) :
         LET result == ReadAll(files, order)
         IN req' = [req EXCEPT ![c] = [op |-> "sites", pc |-> "done",
                                        status |-> result.status, sites |-> result.sites]]
    /\ UNCHANGED <<files, dirExists, lastSaved, procs>>

Init ==
    /\ files = NoFiles
    /\ dirExists = FALSE
    /\ lastSaved = [n \in {} |-> <<>>]
    /\ req = [c \in Clients |-> Idle]
    /\ procs = [c \in Clients |-> [state |-> "none"]]

NextStore ==
    \/ \E form \in StoreForms : new_site("c1", form)
    \/ sites("c1")

SpecStore == Init /\ [][NextStore]_vars

----------------------------------------------------------------------------
(* The store under concurrent requests: a handler is suspended where it
   opens, writes or reads a file. *)

Writers == {"c1", "c2"}
Readers == {"c3"}
ConcNames == {Lab1, Name50}
ConcForms == FormsOver(ConcNames, {VlanPadded}, DiskLists, {<<>>})

\* POST /sites/new up to the open(config_file, 'w'); yaml.dump fills the buffer.
new_site_open(c, form) ==
    /\ Ready(c)
    /\ IF BuildOutcome(form) # "ok"
       THEN /\ req' = [req EXCEPT ![c] = [op |-> "new_site", pc |-> "done",
                                           status |-> BuildOutcome(form), flash |-> <<>>]]
            /\ UNCHANGED <<files, dirExists>>
       ELSE /\ dirExists' = TRUE
            /\ files' = OpenTruncate(files, FileNameOf(form.site_name))
            /\ req' = [req EXCEPT ![c] = [op |-> "new_site", pc |-> "writing",
                                           config |-> SiteConfigOf(form),
                                           buffer |-> Dump(SiteConfigOf(form))]]
    /\ UNCHANGED <<lastSaved, procs>>

\* The end of the with block: the buffer is written and the file closed.
new_site_close(c) ==
    /\ req[c].pc = "writing"
    /\ files' = WriteAtStart(files, FileNameOf(req[c].config.site_name.s), req[c].buffer)
    /\ req' = [req EXCEPT ![c] = [op |-> "new_site", pc |-> "done", status |-> "302",
                                   flash |-> <<"Site configuration created successfully!">>]]
    /\ UNCHANGED <<dirExists, lastSaved, procs>>

\* GET /sites up to the directory scan of glob.
sites_glob(c) ==
    /\ Ready(c)
    /\ \E order \in Perms(IF dirExists THEN DOMAIN files ELSE {}) :
         req' = [req EXCEPT ![c] = [op |-> "sites", pc |-> "reading", todo |-> order,
                                     sites |-> <<>>, reads |-> 0, lastDoc |-> <<>>,
                                     status |-> "pending"]]
    /\ UNCHANGED <<files, dirExists, lastSaved, procs>>

\* One pass of the loop: open, safe_load, add the file name, append.
sites_read(c) ==
    /\ req[c].pc = "reading"
    /\ req[c].todo # <<>>
    /\ LET name == Head(req[c].todo)
           doc == files[name]
       IN req' = [req EXCEPT ![c] =
                    IF ReadOutcome(doc) = "raised"
                    THEN [@ EXCEPT !.pc = "done", !.status = "raised",
                                   !.reads = @ + 1, !.lastDoc = doc]
                    ELSE [@ EXCEPT !.todo = Tail(@), !.sites = Append(@, SiteEntry(doc, name)),
                                   !.reads = @ + 1, !.lastDoc = doc]]
    /\ UNCHANGED <<files, dirExists, lastSaved, procs>>

\* render_template('sites.html', sites=sites)
sites_render(c) ==
    /\ req[c].pc = "reading"
    /\ req[c].todo = <<>>
    /\ req' = [req EXCEPT ![c] = [@ EXCEPT !.pc = "done", !.status = "ok"]]
    /\ UNCHANGED <<files, dirExists, lastSaved, procs>>

NextConc ==
    \/ \E c \in Writers, form \in ConcForms : new_site_open(c, form)
    \/ \E c \in Writers : new_site_close(c)
    \/ \E c \in Readers : sites_glob(c)
    \/ \E c \in Readers : sites_read(c)
    \/ \E c \in Readers : sites_render(c)

SpecConc == Init /\ [][NextConc]_vars

----------------------------------------------------------------------------
(* External tools: create_usb and deploy run a tool with subprocess.run and
   turn its result into a flashed message. *)

UsbTool == <<"/opt/brewnix/vendor/proxmox-nas/bootstrap/create-nas-usb.sh">>
AnsiblePlaybook == <<"ansible-playbook">>
SiteYml == <<"/opt/brewnix/vendor/proxmox-nas/ansible/site.yml">>
SitesDir == <<"/opt/brewnix/config/sites/">>
RepoDir == <<"/opt/brewnix">>

\* The words a shell would make of a command line.
Words(line) == SelectSeq(SplitAt(line, Whitespace, <<>>), LAMBDA w : w # <<>>)

UsbArgvShell(site_name, usb_device) ==
    Words(UsbTool \o <<" ", "--site-config", " ">> \o SitesDir \o site_name \o YmlExt
          \o <<" ", "--usb-device", " ">> \o usb_device)

\* The argument list of create_usb; no shell reads it.
UsbArgv(site_name, usb_device) ==
    << UsbTool, <<"--site-config">>, SitesDir \o site_name \o YmlExt,
       <<"--usb-device">>, usb_device >>

\* The argument list of deploy.
DeployArgv(site_name) ==
    << AnsiblePlaybook, SiteYml, <<"-e">>,
       <<"site_config_file=">> \o SitesDir \o site_name \o YmlExt >>

NoProc == [state |-> "none"]

\* A second run of the same command is not started while one is in progress.
PopenExclusive(ps, c, argv, hangs) ==
    IF \E d \in DOMAIN ps : d # c /\ ps[d].state = "running" /\ ps[d].argv = argv
    THEN [ps EXCEPT ![c] = NoProc]
    ELSE [ps EXCEPT ![c] = [state |-> "running", argv |-> argv, cwd |-> RepoDir, hangs |-> hangs]]

\* subprocess.run starts the tool: a child process of its own for every call.
Popen(ps, c, argv, hangs) ==
    [ps EXCEPT ![c] = [state |-> "running", argv |-> argv, cwd |-> RepoDir, hangs |-> hangs]]

\* What a tool leaves when it exits: the exit code and the bytes it wrote.
InvalidByte == "\\xff"
OutText == <<"o", "k", "\n">>
ErrText == <<"f", "a", "i", "l", "\n">>
BadBytes == <<InvalidByte>>
ExitResults == [rc : {0, 1}, out : {OutText, BadBytes}, err : {<<>>, ErrText, BadBytes}]

\* text=True: the captured bytes are decoded, strictly.
Decodable(bytes) == InvalidByte \notin Range(bytes)

Flash(category, text) == [category |-> category, text |-> text]

\* The message create_usb and deploy flash for a completed run.
Classify(op, rc, stderr) ==
    IF rc = 0
    THEN Flash("message", IF op = "deploy" THEN <<"Deployment completed successfully!">>
                          ELSE <<"USB bootstrap drive created successfully!">>)
    ELSE Flash("error", (IF op = "deploy" THEN <<"Deployment failed: ">>
                          ELSE <<"Error creating USB drive: ">>) \o stderr)

RunClients == {"c1", "c2"}
Injection == <<";", " ", "r", "m">>
RunSites == {Lab1, Injection}
RunDevices == {<<"/dev/sdx">>, <<"/dev/sdx", " ", "--site-config">>}
RunForms == FormsOver({Lab1}, {VlanPadded}, {SubSeq(AllDisks, 4, 4)}, {<<>>})

\* POST /usb/create up to the start of the tool.
create_usb_start(c, site_name, usb_device) ==
    /\ Ready(c)
    /\ IF site_name = Missing \/ usb_device = Missing
       THEN \* request.form[...] is outside the try: 400, nothing flashed
            /\ req' = [req EXCEPT ![c] = [op |-> "create_usb", pc |-> "done", site |-> site_name,
                                           device |-> usb_device, launch |-> "badrequest",
                                           flashes |-> <<>>]]
            /\ procs' = [procs EXCEPT ![c] = NoProc]
       ELSE \E launch \in {"ok", "oserror"}, hangs \in BOOLEAN :
            IF launch = "oserror"
            THEN /\ ~hangs
                 /\ req' = [req EXCEPT ![c] = [op |-> "create_usb", pc |-> "done", site |-> site_name,
                                                device |-> usb_device, launch |-> launch,
                                                flashes |-> <<Flash("error", <<"Error: ", "OSError">>)>>]]
                 /\ procs' = [procs EXCEPT ![c] = NoProc]
            ELSE /\ req' = [req EXCEPT ![c] = [op |-> "create_usb", pc |-> "waiting", site |-> site_name,
                                                device |-> usb_device, launch |-> launch,
                                                flashes |-> <<>>]]
                 /\ procs' = Popen(procs, c, UsbArgv(site_name, usb_device), hangs)
    /\ UNCHANGED <<files, dirExists, lastSaved>>

\* POST /deploy up to the start of the tool.
deploy_start(c, site_name) ==
    /\ Ready(c)
    /\ IF site_name = Missing
       THEN \* request.form["site_name"] is inside the try: the KeyError is flashed
            /\ req' = [req EXCEPT ![c] = [op |-> "deploy", pc |-> "done", site |-> site_name,
                                           device |-> <<>>, launch |-> "keyerror",
                                           flashes |-> <<Flash("error", <<"Error: ", "KeyError">>)>>]]
            /\ procs' = [procs EXCEPT ![c] = NoProc]
       ELSE \E launch \in {"ok", "oserror"}, hangs \in BOOLEAN :
            IF launch = "oserror"
            THEN /\ ~hangs
                 /\ req' = [req EXCEPT ![c] = [op |-> "deploy", pc |-> "done", site |-> site_name,
                                                device |-> <<>>, launch |-> launch,
                                                flashes |-> <<Flash("error", <<"Error: ", "OSError">>)>>]]
                 /\ procs' = [procs EXCEPT ![c] = NoProc]
            ELSE /\ req' = [req EXCEPT ![c] = [op |-> "deploy", pc |-> "waiting", site |-> site_name,
                                                device |-> <<>>, launch |-> launch,
                                                flashes |-> <<>>]]
                 /\ procs' = Popen(procs, c, DeployArgv(site_name), hangs)
    /\ UNCHANGED <<files, dirExists, lastSaved>>

\* The tool exits, unless it is one that never does.
proc_exit(c) ==
    /\ procs[c].state = "running"
    /\ ~procs[c].hangs
    /\ \E result \in ExitResults :
         procs' = [procs EXCEPT ![c] = [state |-> "exited", argv |-> @.argv, cwd |-> @.cwd,
                                         hangs |-> FALSE, rc |-> result.rc,
                                         out |-> result.out, err |-> result.err]]
    /\ UNCHANGED <<files, dirExists, lastSaved, req>>

\* subprocess.run returns (or raises UnicodeDecodeError); the handler flashes
\* its message and redirects.
run_return(c) ==
    /\ req[c].pc = "waiting"
    /\ procs[c].state = "exited"
    /\ req' = [req EXCEPT ![c] =
                 [@ EXCEPT !.pc = "done",
                           !.flashes = IF Decodable(procs[c].out) /\ Decodable(procs[c].err)
                                       THEN <<Classify(req[c].op, procs[c].rc, procs[c].err)>>
                                       ELSE <<Flash("error", <<"Error: ", "UnicodeDecodeError">>)>>]]
    /\ UNCHANGED <<files, dirExists, lastSaved, procs>>

NextRun ==
    \/ \E c \in RunClients, site_name \in RunSites \cup {Missing}, usb_device \in RunDevices \cup {Missing} :
          create_usb_start(c, site_name, usb_device)
    \/ \E c \in RunClients, site_name \in RunSites \cup {Missing} : deploy_start(c, site_name)
    \/ \E c \in RunClients : proc_exit(c)
    \/ \E c \in RunClients : run_return(c)
    \/ \E form \in RunForms : new_site("c3", form)

SpecRun == Init /\ [][NextRun]_vars

\* A tool that exits is seen to exit, and a handler whose tool has exited goes on.
FairRun ==
    /\ Init
    /\ [][NextRun]_vars
    /\ \A c \in RunClients : WF_vars(proc_exit(c)) /\ WF_vars(run_return(c))

----------------------------------------------------------------------------
(* Status collection: the dashboard and the two JSON endpoints.  The outcome
   of every status command is the environment's; a handler is suspended at
   each command it runs. *)

Outcome(launch, rc, out) == [launch |-> launch, rc |-> rc, out |-> out]

JsonText == <<"{", "pools", "}", "\n">>
UsageText == <<"8", "0", "%", "\n">>
LogText == <<"a", "\n", "b", "\n">>
PorcelainText == <<" ", "M", " ", "x", "\n">>

ZpoolOutcomes == { Outcome("oserror", 0, <<>>), Outcome("ok", 0, JsonText), Outcome("ok", 0, UsageText),
                   Outcome("ok", 1, <<>>), Outcome("ok", 0, BadBytes) }
UsageOutcomes == { Outcome("oserror", 0, <<>>), Outcome("ok", 0, UsageText), Outcome("ok", 1, <<>>) }
GitStatusOutcomes == { Outcome("oserror", 0, <<>>), Outcome("ok", 0, PorcelainText), Outcome("ok", 1, <<>>) }
GitLogOutcomes == { Outcome("oserror", 0, <<>>), Outcome("ok", 0, LogText),
                    Outcome("ok", 0, <<>>), Outcome("ok", 1, <<>>) }

Envs == [zpool : ZpoolOutcomes, df : UsageOutcomes, free : UsageOutcomes,
         git_status : GitStatusOutcomes, git_log : GitLogOutcomes]

\* subprocess.run(..., capture_output=True, text=True) raises when the command
\* cannot be started or its output cannot be decoded.
RunRaises(o) == o.launch = "oserror" \/ ~Decodable(o.out)

\* json.loads: an object, or JSONDecodeError.
JsonValid(text) == Strip(text) # <<>> /\ Head(Strip(text)) = "{" /\ Last(Strip(text)) = "}"
JsonLoads(text) == [t |-> "dict", keys |-> SubSeq(Strip(text), 2, Len(Strip(text)) - 1)]
EmptyDict == [t |-> "dict", keys |-> <<>>]

ErrorDict == [kind |-> "error"]
Unset == [kind |-> "unset"]

\* get_proxmox_status returns fixed data.
MockInventory ==
    [kind |-> "info",
     vms |-> << [name |-> "truenas", status |-> "running", vmid |-> 100],
                [name |-> "nextcloud", status |-> "running", vmid |-> 101] >>,
     containers |-> << [name |-> "monitoring", status |-> "running", vmid |-> 200] >>]

StatusOps == {"dashboard", "api_status", "api_vms"}

\* GET /, /api/status or /api/vms up to the first command.
status_start(c, op, env) ==
    /\ Ready(c)
    /\ req' = [req EXCEPT ![c] =
                 [op |-> op, pc |-> IF op = "api_vms" THEN "done" ELSE "zpool", env |-> env,
                  zfs_status |-> EmptyDict, disk_usage |-> <<>>, porcelain |-> <<>>,
                  system_info |-> Unset,
                  vm_status |-> IF op = "api_vms" THEN MockInventory ELSE Unset,
                  git_status |-> Unset]]
    /\ UNCHANGED <<files, dirExists, lastSaved, procs>>

\* Where get_system_info returns to.
AfterSystemInfo(op) == IF op = "api_status" THEN "done" ELSE "proxmox"

\* zpool status -j
run_zpool(c) ==
    /\ req[c].pc = "zpool"
    /\ LET o == req[c].env.zpool
       IN req' = [req EXCEPT ![c] =
                    IF RunRaises(o) \/ (o.rc = 0 /\ ~JsonValid(o.out))
                    THEN [@ EXCEPT !.pc = AfterSystemInfo(req[c].op), !.system_info = ErrorDict]
                    ELSE [@ EXCEPT !.pc = "df",
                                   !.zfs_status = IF o.rc = 0 THEN JsonLoads(o.out) ELSE EmptyDict]]
    /\ UNCHANGED <<files, dirExists, lastSaved, procs>>

\* df -h /
run_df(c) ==
    /\ req[c].pc = "df"
    /\ LET o == req[c].env.df
       IN req' = [req EXCEPT ![c] =
                    IF RunRaises(o)
                    THEN [@ EXCEPT !.pc = AfterSystemInfo(req[c].op), !.system_info = ErrorDict]
                    ELSE [@ EXCEPT !.pc = "free", !.disk_usage = Strip(o.out)]]
    /\ UNCHANGED <<files, dirExists, lastSaved, procs>>

\* free -h, and the return of get_system_info
run_free(c) ==
    /\ req[c].pc = "free"
    /\ LET o == req[c].env.free
       IN req' = [req EXCEPT ![c] =
                    IF RunRaises(o)
                    THEN [@ EXCEPT !.pc = AfterSystemInfo(req[c].op), !.system_info = ErrorDict]
                    ELSE [@ EXCEPT !.pc = AfterSystemInfo(req[c].op),
                                   !.system_info = [kind |-> "info", zfs_pools |-> req[c].zfs_status,
                                                    disk_usage |-> PyStr(req[c].disk_usage),
                                                    memory |-> PyStr(Strip(o.out))]]]
    /\ UNCHANGED <<files, dirExists, lastSaved, procs>>

get_proxmox_status(c) ==
    /\ req[c].pc = "proxmox"
    /\ req' = [req EXCEPT ![c] = [@ EXCEPT !.pc = "git_status", !.vm_status = MockInventory]]
    /\ UNCHANGED <<files, dirExists, lastSaved, procs>>

\* git status --porcelain
run_git_status(c) ==
    /\ req[c].pc = "git_status"
    /\ LET o == req[c].env.git_status
       IN req' = [req EXCEPT ![c] =
                    IF RunRaises(o)
                    THEN [@ EXCEPT !.pc = "done", !.git_status = ErrorDict]
                    ELSE [@ EXCEPT !.pc = "git_log", !.porcelain = Strip(o.out)]]
    /\ UNCHANGED <<files, dirExists, lastSaved, procs>>

\* The list of recent commits: recent_commits.split('\n') if recent_commits else []
CommitList(recent_commits) == IF recent_commits # <<>> THEN SplitLines(recent_commits) ELSE <<>>

\* git log --oneline -5, the return of get_git_status and the rendering
run_git_log(c) ==
    /\ req[c].pc = "git_log"
    /\ LET o == req[c].env.git_log
       IN req' = [req EXCEPT ![c] =
                    IF RunRaises(o)
                    THEN [@ EXCEPT !.pc = "done", !.git_status = ErrorDict]
                    ELSE [@ EXCEPT !.pc = "done",
                                   !.git_status = [kind |-> "info", status |-> PyStr(req[c].porcelain),
                                                   recent_commits |-> CommitList(Strip(o.out))]]]
    /\ UNCHANGED <<files, dirExists, lastSaved, procs>>

NextStatus ==
    \/ \E op \in StatusOps, env \in Envs : status_start("c1", op, env)
    \/ run_zpool("c1")
    \/ run_df("c1")
    \/ run_free("c1")
    \/ get_proxmox_status("c1")
    \/ run_git_status("c1")
    \/ run_git_log("c1")

SpecStatus == Init /\ [][NextStatus]_vars

----------------------------------------------------------------------------
(* Claims about the store *)

CompleteDocs == {Dump(SiteConfigOf(form)) : form \in {f \in ConcForms : BuildOutcome(f) = "ok"}}

\* C5: a reader that runs while a site is being saved reads, for every file,
\* a complete document (the one stored before the save or the new one), never
\* an empty or partially written file.
C5_ReadersSeeCompleteRecords ==
    \A c \in Readers :
        (req[c].op = "sites" /\ req[c].reads > 0) => req[c].lastDoc \in CompleteDocs

\* C7: after any sequence of saves, the file of every saved site_name loads to
\* the config most recently saved under that name, the store holds one file
\* per saved name, and a listing shows exactly these configs, one per name.
C7_LastWriteWins ==
    /\ DOMAIN files = {FileNameOf(n) : n \in DOMAIN lastSaved}
    /\ Cardinality(DOMAIN files) = Cardinality(DOMAIN lastSaved)
    /\ \A n \in DOMAIN lastSaved :
          /\ LoadKind(files[FileNameOf(n)]) = "dict"
          /\ LoadDict(files[FileNameOf(n)]) = lastSaved[n].config
    /\ req["c1"].op = "sites" =>
          /\ req["c1"].status = "ok"
          /\ Len(req["c1"].sites) = Cardinality(DOMAIN lastSaved)
          /\ \A n \in DOMAIN lastSaved :
                \E i \in 1..Len(req["c1"].sites) :
                    /\ req["c1"].sites[i].filename = FileNameOf(n)
                    /\ req["c1"].sites[i].config = lastSaved[n].config

\* A listing made after a site whose name reads as a number was saved over a
\* different config of the same name, with another site stored beside it.
C7_Witness ==
    /\ req["c1"].op = "sites"
    /\ Len(req["c1"].sites) >= 2
    /\ Name50 \in DOMAIN lastSaved
    /\ lastSaved[Name50].replaced
    /\ lastSaved[Name50].config.storage.data_disks # <<>>

\* C9: every stored record has a non-empty site_name, a positive vlan_id and
\* disk lists that are lists; a submission that breaks this is rejected and
\* the store is left as it was.
C9_StoredRecordsValid ==
    \A f \in DOMAIN files :
        LET config == LoadDict(files[f])
        IN /\ config.site_name.t = "str"
           /\ config.site_name.s # <<>>
           /\ config.network.vlan_id.t = "int"
           /\ config.network.vlan_id.n > 0
           /\ Len(config.storage.system_disks) >= 0
           /\ Len(config.storage.data_disks) >= 0

\* C10: a listing that has read a well-formed record does not raise on a
\* record that cannot be parsed (or parses to an empty document).
C10_ListingToleratesMalformed ==
    \A c \in Readers :
        (req[c].op = "sites" /\ Len(req[c].sites) >= 1) => req[c].status # "raised"

----------------------------------------------------------------------------
(* Claims about the external tools *)

ToolRequest(c) == req[c].op \in {"deploy", "create_usb"}

\* C2: for a site that has no stored record, deploy and create_usb start no
\* external tool and end in a failure outcome.
C2_NoToolForUnsavedSite ==
    \A c \in RunClients :
        (ToolRequest(c) /\ FileNameOf(req[c].site) \notin DOMAIN files) =>
            /\ procs[c].state = "none"
            /\ req[c].pc = "done" => \E i \in 1..Len(req[c].flashes) : req[c].flashes[i].category = "error"

\* C3: every run of an external tool returns to its caller, also when the tool
\* never exits.
C3_EveryRunReturns ==
    \A c \in RunClients : (req[c].pc = "waiting") ~> (req[c].pc = "done" /\ procs[c].state # "running")

\* C4 as claimed: no two runs of the deployment for the same site are in
\* progress at once.
C4_OneRunPerSite ==
    \A c, d \in RunClients :
        (c # d /\ req[c].op = "deploy" /\ req[d].op = "deploy"
              /\ procs[c].state = "running" /\ procs[d].state = "running")
            => req[c].site # req[d].site

\* C4 as amended: deploy requests are not serialised; the runs in progress
\* for a site are as many as the deploy requests for it that started their
\* tool and whose tool has not exited, whatever else is running.
C4_RunsAreNotSerialised ==
    \A site \in RunSites :
        Cardinality({c \in RunClients : procs[c].state = "running" /\ procs[c].argv = DeployArgv(site)})
          = Cardinality({c \in RunClients : /\ req[c].op = "deploy"
                                             /\ req[c].pc = "waiting"
                                             /\ req[c].site = site
                                             /\ procs[c].state # "exited"})

\* Two runs for one site in progress together, and two for different sites.
C4_Witness ==
    /\ req["c1"].op = "deploy" /\ req["c2"].op = "deploy"
    /\ procs["c1"].state = "running" /\ procs["c2"].state = "running"
    /\ req["c1"].site = Lab1 /\ req["c2"].site = Lab1
    /\ FileNameOf(Lab1) \in DOMAIN files

\* C6: a request that ran its tool ends with exactly one message: the success
\* message if and only if the tool ran and exited with code 0, a failure
\* carrying the captured stderr if the code is not 0, a failure (and no
\* escaping fault) if the tool could not be started.
C6_OutcomeFollowsExitCode ==
    \A c \in RunClients :
        (ToolRequest(c) /\ req[c].pc = "done" /\ req[c].launch \in {"ok", "oserror"}) =>
            /\ Len(req[c].flashes) = 1
            /\ req[c].flashes[1].category = "message"
                  <=> (procs[c].state = "exited" /\ procs[c].rc = 0)
            /\ (procs[c].state = "exited" /\ procs[c].rc # 0) =>
                  /\ req[c].flashes[1].category = "error"
                  /\ Tail(req[c].flashes[1].text) = procs[c].err
            /\ req[c].launch = "oserror" => req[c].flashes[1].category = "error"

\* C8: the argument list that is run has a fixed length and fixed flags; the
\* site name occurs only within the one config path argument, the device is
\* the one --usb-device value, whatever characters they hold.
C8_ArgvStructureFixed ==
    \A c \in RunClients :
        procs[c].state # "none" =>
            IF req[c].op = "create_usb"
            THEN /\ Len(procs[c].argv) = 5
                 /\ procs[c].argv[1] = UsbTool
                 /\ procs[c].argv[2] = <<"--site-config">>
                 /\ procs[c].argv[3] = SitesDir \o req[c].site \o YmlExt
                 /\ procs[c].argv[4] = <<"--usb-device">>
                 /\ procs[c].argv[5] = req[c].device
            ELSE /\ Len(procs[c].argv) = 4
                 /\ procs[c].argv[1] = AnsiblePlaybook
                 /\ procs[c].argv[2] = SiteYml
                 /\ procs[c].argv[3] = <<"-e">>
                 /\ procs[c].argv[4] = <<"site_config_file=">> \o SitesDir \o req[c].site \o YmlExt

\* A media run for a site name with shell metacharacters and a device with
\* whitespace, beside a deployment of the same site name.
C8_Witness ==
    /\ req["c1"].op = "create_usb" /\ procs["c1"].state = "running"
    /\ req["c1"].site = Injection
    /\ " " \in Range(req["c1"].device)
    /\ req["c2"].op = "deploy" /\ procs["c2"].state = "running"
    /\ ";" \in Range(req["c2"].site)

----------------------------------------------------------------------------
(* Claims about the status collection *)

\* A source fails when its command cannot be started, exits with a code
\* other than 0 or writes output that cannot be interpreted.
CommandFailed(o) == o.launch = "oserror" \/ o.rc # 0 \/ ~Decodable(o.out)
PoolFailed(env) == CommandFailed(env.zpool) \/ ~JsonValid(env.zpool.out)
UsageFailed(env) == CommandFailed(env.df) \/ CommandFailed(env.free)
RepoFailed(env) == CommandFailed(env.git_status) \/ CommandFailed(env.git_log)
FailedSources(env) ==
    (IF PoolFailed(env) THEN {"pool"} ELSE {})
      \cup (IF UsageFailed(env) THEN {"usage"} ELSE {})
      \cup (IF RepoFailed(env) THEN {"repo"} ELSE {})

IsMarker(field) == field.t = "error"

\* C1: when exactly one status source fails, the dashboard's snapshot holds
\* the data of every other source and an explicit failure marker, not empty
\* or missing data, in the field of the one that failed.
C1_FailureIsolatedPerSource ==
    \A c \in {"c1"} :
        (req[c].op = "dashboard" /\ req[c].pc = "done"
            /\ Cardinality(FailedSources(req[c].env)) = 1) =>
          LET env == req[c].env
              info == req[c].system_info
              git == req[c].git_status
          IN /\ info.kind = "info"
             /\ IF PoolFailed(env) THEN IsMarker(info.zfs_pools)
                ELSE info.zfs_pools = JsonLoads(env.zpool.out)
             /\ IF CommandFailed(env.df) THEN IsMarker(info.disk_usage)
                ELSE info.disk_usage = PyStr(Strip(env.df.out))
             /\ IF CommandFailed(env.free) THEN IsMarker(info.memory)
                ELSE info.memory = PyStr(Strip(env.free.out))
             /\ req[c].vm_status = MockInventory
             /\ IF RepoFailed(env) THEN git.kind = "error"
                ELSE /\ git.kind = "info"
                     /\ git.status = PyStr(Strip(env.git_status.out))
                     /\ git.recent_commits = CommitList(Strip(env.git_log.out))

====
